---- MODULE Spec2Model ----
(***************************************************************************)
(* A model of servo/components/style/values/generics/grid.rs: the generic  *)
(* CSS Grid value types, the <grid-line> and <repeat-count> parsers and    *)
(* the canonical serializers.                                              *)
(*                                                                         *)
(* CSS text is a sequence of one-character strings, so that serialization  *)
(* and tokenization are computed and never assumed to be inverse to each   *)
(* other.  A CustomIdent (an atom) is the sequence of its characters; the  *)
(* empty atom is the empty sequence.                                       *)
(***************************************************************************)
EXTENDS Integers, Sequences, FiniteSets, TLC

VARIABLES
    debug_assertions, \* whether the build compiles debug_assert! in
    input,            \* GridLine::parse: the token stream handed to the parser
    pos,              \* GridLine::parse: the cursor (index of the next token)
    pc,               \* GridLine::parse: position of the parse / print cycle
    grid_line,        \* GridLine::parse: `let mut grid_line`
    val_before_span,  \* GridLine::parse: `let mut val_before_span`
    iter,             \* GridLine::parse: iterations of `for _ in 0..3` done
    css,              \* text written by GridLine::to_css
    reparsed,         \* result of parsing `css` again
    css2,             \* text written by to_css of `reparsed`
    other,            \* GridLine::can_omit: the `other` argument
    omit,             \* GridLine::can_omit: its result
    size_pc,          \* TrackSize: position of the serialization
    size_a,           \* a TrackSize
    size_b,           \* another TrackSize
    size_css_a,       \* text written by size_a.to_css
    size_css_b,       \* text written by size_b.to_css
    size_fixed,       \* result of size_a.is_fixed()
    list_pc,          \* TrackList::to_css: position in the loop
    track_list,       \* TrackList::to_css: `self`
    idx,              \* TrackList::to_css: the loop counter
    values_iter,      \* TrackList::to_css: values the iterator has yielded
    line_names_iter,  \* TrackList::to_css: name-sets the iterator has yielded
    dest,             \* TrackList::to_css: text written so far
    visited_values,   \* indices of `values` yielded, in order
    visited_names,    \* indices of `line_names` yielded, in order
    repeat_pc,        \* repeat(): position of the parse / print sequence
    count_input,      \* RepeatCount::parse: the token stream
    count,            \* RepeatCount::parse: the RepeatCount returned
    line_names,       \* TrackRepeat / NameRepeat: `line_names`
    track_sizes,      \* TrackRepeat: `track_sizes`
    track_repeat_css, \* text written by TrackRepeat::to_css
    name_repeat_css,  \* text written by NameRepeat::to_css
    line_name_value,  \* a LineNameListValue
    line_name_css     \* text written by LineNameListValue::to_css

glVars == <<debug_assertions, input, pos, pc, grid_line, val_before_span, iter,
            css, reparsed, css2, other, omit>>

sizeVars == <<size_pc, size_a, size_b, size_css_a, size_css_b, size_fixed>>

repeatVars == <<repeat_pc, count_input, count, line_names, track_sizes,
                track_repeat_css, name_repeat_css, line_name_value, line_name_css>>

listVars == <<list_pc, track_list, idx, values_iter, line_names_iter, dest,
              visited_values, visited_names>>

vars == <<glVars, sizeVars, repeatVars, listVars>>

(***************************************************************************)
(* Bounds of the model.                                                    *)
(***************************************************************************)
MaxTokens == 3

(***************************************************************************)
(* Program constants.                                                      *)
(***************************************************************************)
MIN_GRID_LINE == -10000
MAX_GRID_LINE == 10000
MaxEntities == 3

(***************************************************************************)
(* Text.                                                                   *)
(***************************************************************************)
S_auto == <<"a", "u", "t", "o">>
S_span == <<"s", "p", "a", "n">>
S_foo == <<"f", "o", "o">>
S_bar == <<"b", "a", "r">>
EmptyAtom == <<>>

DigitChars == <<"0", "1", "2", "3", "4", "5", "6", "7", "8", "9">>
Letters == {"a", "b", "c", "d", "e", "f", "g", "h", "i", "j", "k", "l", "m",
            "n", "o", "p", "q", "r", "s", "t", "u", "v", "w", "x", "y", "z"}

UpperChars == <<"A", "B", "C", "D", "E", "F", "G", "H", "I", "J", "K", "L", "M",
               "N", "O", "P", "Q", "R", "S", "T", "U", "V", "W", "X", "Y", "Z">>
LowerChars == <<"a", "b", "c", "d", "e", "f", "g", "h", "i", "j", "k", "l", "m",
               "n", "o", "p", "q", "r", "s", "t", "u", "v", "w", "x", "y", "z">>
UpperLetters == {UpperChars[i] : i \in 1..26}

\* u8::to_ascii_lowercase / str::eq_ignore_ascii_case
AsciiLowerChar(c) ==
    IF c \in UpperLetters THEN LowerChars[CHOOSE i \in 1..26 : UpperChars[i] = c] ELSE c
AsciiLower(w) == [i \in 1..Len(w) |-> AsciiLowerChar(w[i])]
EqIgnoreAsciiCase(v, w) == AsciiLower(v) = AsciiLower(w)

IsDigit(c) == \E d \in 1..10 : DigitChars[d] = c
DigitValue(c) == (CHOOSE d \in 1..10 : DigitChars[d] = c) - 1

RECURSIVE NatToCss(_)
NatToCss(n) ==
    IF n < 10 THEN <<DigitChars[n + 1]>>
    ELSE NatToCss(n \div 10) \o <<DigitChars[(n % 10) + 1]>>

\* specified::Integer::to_css of a non-calc integer: its decimal digits.
IntegerToCss(n) == IF n < 0 THEN <<"-">> \o NatToCss(-n) ELSE NatToCss(n)

\* CustomIdent::to_css: the identifier itself (no character of the
\* identifiers used here needs escaping).
CustomIdentToCss(ident) == ident

(***************************************************************************)
(* Tokens, and the tokenizer the parser reads text through.                *)
(***************************************************************************)
IdentToken(name) == [kind |-> "ident", name |-> name, value |-> 0]
IntToken(n) == [kind |-> "int", name |-> EmptyAtom, value |-> n]
DelimToken == [kind |-> "delim", name |-> <<"/">>, value |-> 0]
EofToken == [kind |-> "eof", name |-> EmptyAtom, value |-> 0]

RECURSIVE DigitsValue(_)
DigitsValue(w) ==
    IF Len(w) = 0 THEN 0
    ELSE 10 * DigitsValue(SubSeq(w, 1, Len(w) - 1)) + DigitValue(w[Len(w)])

AllDigits(w) == Len(w) > 0 /\ \A i \in 1..Len(w) : IsDigit(w[i])

\* One whitespace-separated word of CSS text as a token.
WordToken(w) ==
    IF AllDigits(w) THEN IntToken(DigitsValue(w))
    ELSE IF w[1] = "-" /\ AllDigits(Tail(w)) THEN IntToken(0 - DigitsValue(Tail(w)))
    ELSE IF \A i \in 1..Len(w) : w[i] \in Letters \cup UpperLetters \cup {"-"}
         THEN IdentToken(w)
    ELSE [kind |-> "delim", name |-> w, value |-> 0]

RECURSIVE SplitWords(_, _)
SplitWords(text, word) ==
    IF Len(text) = 0 THEN (IF Len(word) = 0 THEN <<>> ELSE <<word>>)
    ELSE IF Head(text) = " "
         THEN (IF Len(word) = 0 THEN <<>> ELSE <<word>>) \o SplitWords(Tail(text), <<>>)
         ELSE SplitWords(Tail(text), Append(word, Head(text)))

Tokenize(text) ==
    LET words == SplitWords(text, <<>>)
    IN [i \in 1..Len(words) |-> WordToken(words[i])]

NextToken(tokens, p) == IF p <= Len(tokens) THEN tokens[p] ELSE EofToken

\* Parser::expect_ident_matching
ExpectIdentMatching(tok, keyword) ==
    tok.kind = "ident" /\ EqIgnoreAsciiCase(tok.name, keyword)
\* specified::Integer::parse
IntegerParse(tok) == tok.kind = "int"
\* CustomIdent::parse(input, excluding)
CustomIdentParse(tok, excluding) ==
    tok.kind = "ident" /\ \A x \in excluding : ~EqIgnoreAsciiCase(tok.name, x)
\* specified::Integer::parse_positive
IntegerParsePositive(tok) == tok.kind = "int" /\ tok.value >= 1

(***************************************************************************)
(* GridLine.                                                               *)
(***************************************************************************)
GridLine(ident, line_num, is_span) ==
    [ident |-> ident, line_num |-> line_num, is_span |-> is_span]

auto == GridLine(EmptyAtom, 0, FALSE)

is_zero(n) == n = 0
is_one(n) == n = 1

is_auto(self) == self.ident = EmptyAtom /\ is_zero(self.line_num) /\ ~self.is_span

is_ident_only(self) == self.ident # EmptyAtom /\ is_zero(self.line_num) /\ ~self.is_span

\* can_omit letting every line omit an equal line or an auto line.
can_omit_EqualOrAuto(self, o) == self = o \/ is_auto(o)

can_omit(self, o) == IF is_ident_only(self) THEN self = o ELSE is_auto(o)

Wrote(text) == [panicked |-> FALSE, text |-> text]
Panicked(text) == [panicked |-> TRUE, text |-> text]
NotWritten == [panicked |-> FALSE, text |-> <<>>]

\* The branch of GridLine::to_css a value takes after `auto` and ident-only.
InSpanBranch(self) == ~is_auto(self) /\ ~is_ident_only(self) /\ self.is_span
InNumberedBranch(self) == ~is_auto(self) /\ ~is_ident_only(self) /\ ~self.is_span

\* debug_assert!(!self.line_num.is_zero() || has_ident)
SpanAssertion(self) == ~is_zero(self.line_num) \/ self.ident # EmptyAtom

\* debug_assert!(!self.line_num.is_zero())
NumberedAssertion(self) == ~is_zero(self.line_num)

\* GridLine::to_css with the span integer omitted whenever it is one, even
\* without an identifier.
GridLineToCss_OmitOne(self, dbg) ==
    IF is_auto(self) THEN Wrote(S_auto)
    ELSE IF is_ident_only(self) THEN Wrote(CustomIdentToCss(self.ident))
    ELSE
      LET has_ident == self.ident # EmptyAtom
          identPart == IF has_ident THEN <<" ">> \o CustomIdentToCss(self.ident) ELSE <<>>
      IN IF self.is_span
         THEN Wrote(S_span
                    \o (IF ~is_zero(self.line_num) /\ ~is_one(self.line_num)
                        THEN <<" ">> \o IntegerToCss(self.line_num)
                        ELSE <<>>)
                    \o identPart)
         ELSE Wrote(IntegerToCss(self.line_num) \o identPart)

\* GridLine::to_css with the span integer omitted whenever an identifier is
\* present, whatever the integer.
GridLineToCss_OmitWithIdent(self, dbg) ==
    IF is_auto(self) THEN Wrote(S_auto)
    ELSE IF is_ident_only(self) THEN Wrote(CustomIdentToCss(self.ident))
    ELSE
      LET has_ident == self.ident # EmptyAtom
          identPart == IF has_ident THEN <<" ">> \o CustomIdentToCss(self.ident) ELSE <<>>
      IN IF self.is_span
         THEN Wrote(S_span
                    \o (IF ~is_zero(self.line_num) /\ ~has_ident
                        THEN <<" ">> \o IntegerToCss(self.line_num)
                        ELSE <<>>)
                    \o identPart)
         ELSE Wrote(IntegerToCss(self.line_num) \o identPart)

\* GridLine::to_css writing a span integer of one even next to an identifier.
GridLineToCss_AlwaysNumber(self, dbg) ==
    IF is_auto(self) THEN Wrote(S_auto)
    ELSE IF is_ident_only(self) THEN Wrote(CustomIdentToCss(self.ident))
    ELSE
      LET has_ident == self.ident # EmptyAtom
          identPart == IF has_ident THEN <<" ">> \o CustomIdentToCss(self.ident) ELSE <<>>
      IN IF self.is_span
         THEN Wrote(S_span
                    \o (IF ~is_zero(self.line_num)
                        THEN <<" ">> \o IntegerToCss(self.line_num)
                        ELSE <<>>)
                    \o identPart)
         ELSE Wrote(IntegerToCss(self.line_num) \o identPart)

\* impl ToCss for GridLine.  `dbg` says whether debug_assert! is compiled in;
\* a failed assertion panics with the text written so far.
GridLineToCss(self, dbg) ==
    IF is_auto(self) THEN Wrote(S_auto)
    ELSE IF is_ident_only(self) THEN Wrote(CustomIdentToCss(self.ident))
    ELSE
      LET has_ident == self.ident # EmptyAtom
          identPart == IF has_ident THEN <<" ">> \o CustomIdentToCss(self.ident) ELSE <<>>
      IN IF self.is_span
         THEN IF dbg /\ ~(~is_zero(self.line_num) \/ has_ident)
              THEN Panicked(S_span)
              ELSE Wrote(S_span
                         \o (IF ~is_zero(self.line_num) /\ ~(is_one(self.line_num) /\ has_ident)
                             THEN <<" ">> \o IntegerToCss(self.line_num)
                             ELSE <<>>)
                         \o identPart)
         ELSE IF dbg /\ is_zero(self.line_num)
              THEN Panicked(<<>>)
              ELSE Wrote(IntegerToCss(self.line_num) \o identPart)

(***************************************************************************)
(* GridLine::parse.  A scan state is the parser's locals and the cursor;   *)
(* `outcome` is what the loop body did: go on, break, or return Err.       *)
(***************************************************************************)
ScanState(g, v, p, o) ==
    [grid_line |-> g, val_before_span |-> v, pos |-> p, outcome |-> o]

Max(a, b) == IF a >= b THEN a ELSE b
Min(a, b) == IF a <= b THEN a ELSE b

\* The `span` arm rejecting a `span` that follows a value.
SpanBranch_RejectAfterValue(s) ==
    IF s.grid_line.is_span
       \/ ~is_zero(s.grid_line.line_num)
       \/ s.grid_line.ident # EmptyAtom
    THEN [s EXCEPT !.outcome = "err"]
    ELSE ScanState([s.grid_line EXCEPT !.is_span = TRUE],
                   s.val_before_span, s.pos + 1, "continue")

\* The `span` arm of the loop body.
SpanBranch(s) ==
    IF s.grid_line.is_span THEN [s EXCEPT !.outcome = "err"]
    ELSE ScanState([s.grid_line EXCEPT !.is_span = TRUE],
                   s.val_before_span
                     \/ ~is_zero(s.grid_line.line_num)
                     \/ s.grid_line.ident # EmptyAtom,
                   s.pos + 1, "continue")

\* The <integer> arm letting a second integer replace the first.
IntegerBranch_Overwrite(s, value) ==
    IF value = 0 \/ s.val_before_span
    THEN [s EXCEPT !.outcome = "err"]
    ELSE ScanState([s.grid_line EXCEPT
                      !.line_num = Max(MIN_GRID_LINE, Min(value, MAX_GRID_LINE))],
                   s.val_before_span, s.pos + 1, "continue")

\* The <integer> arm storing the value without clamping it.
IntegerBranch_NoClamp(s, value) ==
    IF value = 0 \/ s.val_before_span \/ ~is_zero(s.grid_line.line_num)
    THEN [s EXCEPT !.outcome = "err"]
    ELSE ScanState([s.grid_line EXCEPT !.line_num = value],
                   s.val_before_span, s.pos + 1, "continue")

\* The <integer> arm of the loop body.
IntegerBranch(s, value) ==
    IF value = 0 \/ s.val_before_span \/ ~is_zero(s.grid_line.line_num)
    THEN [s EXCEPT !.outcome = "err"]
    ELSE ScanState([s.grid_line EXCEPT
                      !.line_num = Max(MIN_GRID_LINE, Min(value, MAX_GRID_LINE))],
                   s.val_before_span, s.pos + 1, "continue")

\* The <custom-ident> arm without the check of val_before_span.
IdentBranch_IgnoreSpanOrder(s, name) ==
    IF s.grid_line.ident # EmptyAtom
    THEN [s EXCEPT !.outcome = "err"]
    ELSE ScanState([s.grid_line EXCEPT !.ident = name],
                   s.val_before_span, s.pos + 1, "continue")

\* The <custom-ident> arm of the loop body.
IdentBranch(s, name) ==
    IF s.val_before_span \/ s.grid_line.ident # EmptyAtom
    THEN [s EXCEPT !.outcome = "err"]
    ELSE ScanState([s.grid_line EXCEPT !.ident = name],
                   s.val_before_span, s.pos + 1, "continue")

\* One iteration of `for _ in 0..3`.
ScanIteration(tokens, s) ==
    LET tok == NextToken(tokens, s.pos)
    IN IF ExpectIdentMatching(tok, S_span) THEN SpanBranch(s)
       ELSE IF IntegerParse(tok) THEN IntegerBranch(s, tok.value)
       ELSE IF CustomIdentParse(tok, {S_auto}) THEN IdentBranch(s, tok.name)
       ELSE [s EXCEPT !.outcome = "break"]

ParseOk(g, p) == [ok |-> TRUE, value |-> g, pos |-> p]
ParseErr == [ok |-> FALSE, value |-> auto, pos |-> 0]

\* The validation returning the untouched auto value instead of an error.
PostScan_SilentAuto(g, p) ==
    IF g.is_span
    THEN IF ~is_zero(g.line_num)
         THEN (IF g.line_num <= 0 THEN ParseErr ELSE ParseOk(g, p))
         ELSE (IF g.ident = EmptyAtom THEN ParseErr ELSE ParseOk(g, p))
    ELSE ParseOk(g, p)

\* The validation accepting a bare `span`.
PostScan_AllowBareSpan(g, p) ==
    IF is_auto(g) THEN ParseErr
    ELSE IF g.is_span /\ ~is_zero(g.line_num) /\ g.line_num <= 0 THEN ParseErr
    ELSE ParseOk(g, p)

\* The validation without the check for a negative span integer.
PostScan_AllowNegativeSpan(g, p) ==
    IF is_auto(g) THEN ParseErr
    ELSE IF g.is_span /\ is_zero(g.line_num) /\ g.ident = EmptyAtom THEN ParseErr
    ELSE ParseOk(g, p)

\* The validation after the loop.
PostScan(g, p) ==
    IF is_auto(g) THEN ParseErr
    ELSE IF g.is_span
         THEN IF ~is_zero(g.line_num)
              THEN (IF g.line_num <= 0 THEN ParseErr ELSE ParseOk(g, p))
              ELSE (IF g.ident = EmptyAtom THEN ParseErr ELSE ParseOk(g, p))
         ELSE ParseOk(g, p)

RECURSIVE ScanLoop(_, _, _)
ScanLoop(tokens, s, i) ==
    IF i >= MaxEntities \/ s.outcome # "continue" THEN s
    ELSE ScanLoop(tokens, ScanIteration(tokens, s), i + 1)

\* impl Parse for GridLine<specified::Integer>, as a function of the tokens.
GridLineParse(tokens) ==
    IF ExpectIdentMatching(NextToken(tokens, 1), S_auto) THEN ParseOk(auto, 2)
    ELSE LET s == ScanLoop(tokens, ScanState(auto, FALSE, 1, "continue"), 0)
         IN IF s.outcome = "err" THEN ParseErr ELSE PostScan(s.grid_line, s.pos)

(***************************************************************************)
(* TrackBreadth and TrackSize.  The length-percentage type L is opaque: a  *)
(* value of it is the text it prints.  A flex factor is a whole number.    *)
(***************************************************************************)
S_fr == <<"f", "r">>
S_min_content == <<"m", "i", "n", "-", "c", "o", "n", "t", "e", "n", "t">>
S_max_content == <<"m", "a", "x", "-", "c", "o", "n", "t", "e", "n", "t">>
S_minmax_open == <<"m", "i", "n", "m", "a", "x", "(">>
S_fit_content_open == <<"f", "i", "t", "-", "c", "o", "n", "t", "e", "n", "t", "(">>
S_comma_space == <<",", " ">>
S_10px == <<"1", "0", "p", "x">>
S_50pct == <<"5", "0", "%">>

BreadthOf(l) == [tag |-> "Breadth", len |-> l, fr |-> 0]
Fr(x) == [tag |-> "Fr", len |-> <<>>, fr |-> x]
AutoBreadth == [tag |-> "Auto", len |-> <<>>, fr |-> 0]
MinContent == [tag |-> "MinContent", len |-> <<>>, fr |-> 0]
MaxContent == [tag |-> "MaxContent", len |-> <<>>, fr |-> 0]
NoBreadth == [tag |-> "None", len |-> <<>>, fr |-> 0]

SizeBreadth(b) == [tag |-> "Breadth", first |-> b, second |-> NoBreadth]
Minmax(a, b) == [tag |-> "Minmax", first |-> a, second |-> b]
FitContent(b) == [tag |-> "FitContent", first |-> b, second |-> NoBreadth]

\* TrackBreadth::is_fixed
TrackBreadthIsFixed(b) == b.tag = "Breadth"

\* TrackSize::is_fixed looking at the maximum whatever the minimum is.
TrackSizeIsFixed_EitherBreadth(self) ==
    CASE self.tag = "Breadth" -> TrackBreadthIsFixed(self.first)
      [] self.tag = "Minmax" ->
            TrackBreadthIsFixed(self.first) \/ TrackBreadthIsFixed(self.second)
      [] self.tag = "FitContent" -> FALSE

\* TrackSize::is_fixed
TrackSizeIsFixed(self) ==
    CASE self.tag = "Breadth" -> TrackBreadthIsFixed(self.first)
      [] self.tag = "Minmax" ->
            IF TrackBreadthIsFixed(self.first) THEN TRUE
            ELSE IF self.first.tag = "Fr" THEN FALSE
            ELSE TrackBreadthIsFixed(self.second)
      [] self.tag = "FitContent" -> FALSE

\* CSSFloat::to_css of a whole number
CSSFloatToCss(x) == NatToCss(x)

\* #[derive(ToCss)] for TrackBreadth
TrackBreadthToCss(b) ==
    CASE b.tag = "Breadth" -> b.len
      [] b.tag = "Fr" -> CSSFloatToCss(b.fr) \o S_fr
      [] b.tag = "Auto" -> S_auto
      [] b.tag = "MinContent" -> S_min_content
      [] b.tag = "MaxContent" -> S_max_content

\* TrackSize::to_css collapsing every minmax() whose maximum is a flex value.
TrackSizeToCss_CollapseAnyMin(self) ==
    CASE self.tag = "Breadth" -> TrackBreadthToCss(self.first)
      [] self.tag = "Minmax" ->
            IF self.second.tag = "Fr"
            THEN TrackBreadthToCss(self.second)
            ELSE S_minmax_open \o TrackBreadthToCss(self.first) \o S_comma_space
                 \o TrackBreadthToCss(self.second) \o <<")">>
      [] self.tag = "FitContent" ->
            S_fit_content_open \o TrackBreadthToCss(self.first) \o <<")">>

\* impl ToCss for TrackSize
TrackSizeToCss(self) ==
    CASE self.tag = "Breadth" -> TrackBreadthToCss(self.first)
      [] self.tag = "Minmax" ->
            IF self.first.tag = "Auto" /\ self.second.tag = "Fr"
            THEN TrackBreadthToCss(self.second)
            ELSE S_minmax_open \o TrackBreadthToCss(self.first) \o S_comma_space
                 \o TrackBreadthToCss(self.second) \o <<")">>
      [] self.tag = "FitContent" ->
            S_fit_content_open \o TrackBreadthToCss(self.first) \o <<")">>

TrackSizeIdle ==
    /\ size_pc = "idle"
    /\ size_a = SizeBreadth(AutoBreadth)
    /\ size_b = SizeBreadth(AutoBreadth)
    /\ size_css_a = <<>>
    /\ size_css_b = <<>>
    /\ size_fixed = FALSE

(***************************************************************************)
(* RepeatCount, TrackRepeat, NameRepeat, LineNameListValue.                *)
(***************************************************************************)
S_auto_fill == <<"a", "u", "t", "o", "-", "f", "i", "l", "l">>
S_auto_fit == <<"a", "u", "t", "o", "-", "f", "i", "t">>
S_repeat_open == <<"r", "e", "p", "e", "a", "t", "(">>
S_a == <<"a">>
S_b == <<"b">>

Number(n) == [tag |-> "Number", n |-> n]
AutoFill == [tag |-> "AutoFill", n |-> 0]
AutoFit == [tag |-> "AutoFit", n |-> 0]

CountOk(c) == [ok |-> TRUE, value |-> c]
CountErr == [ok |-> FALSE, value |-> AutoFill]

\* RepeatCount::parse reading the integer with Integer::parse.
RepeatCountParse_AnyInteger(tokens) ==
    LET tok == NextToken(tokens, 1)
    IN IF IntegerParse(tok)
       THEN CountOk(Number(IF tok.value > MAX_GRID_LINE THEN MAX_GRID_LINE ELSE tok.value))
       ELSE IF tok.kind = "ident" /\ EqIgnoreAsciiCase(tok.name, S_auto_fill)
            THEN CountOk(AutoFill)
       ELSE IF tok.kind = "ident" /\ EqIgnoreAsciiCase(tok.name, S_auto_fit)
            THEN CountOk(AutoFit)
       ELSE CountErr

\* impl Parse for RepeatCount<specified::Integer>
RepeatCountParse(tokens) ==
    LET tok == NextToken(tokens, 1)
    IN IF IntegerParsePositive(tok)
       THEN CountOk(Number(IF tok.value > MAX_GRID_LINE THEN MAX_GRID_LINE ELSE tok.value))
       ELSE IF tok.kind = "ident" /\ EqIgnoreAsciiCase(tok.name, S_auto_fill)
            THEN CountOk(AutoFill)
       ELSE IF tok.kind = "ident" /\ EqIgnoreAsciiCase(tok.name, S_auto_fit)
            THEN CountOk(AutoFit)
       ELSE CountErr

\* #[derive(ToCss)] for RepeatCount
RepeatCountToCss(c) ==
    CASE c.tag = "Number" -> IntegerToCss(c.n)
      [] c.tag = "AutoFill" -> S_auto_fill
      [] c.tag = "AutoFit" -> S_auto_fit

RECURSIVE JoinRest(_, _)
JoinRest(rest, sep) ==
    IF Len(rest) = 0 THEN <<>>
    ELSE sep \o CustomIdentToCss(Head(rest)) \o JoinRest(Tail(rest), sep)

\* concat_serialize_idents writing the prefix and suffix for an empty slice too.
concat_serialize_idents_Always(prefix, suffix, slice, sep) ==
    IF Len(slice) > 0
    THEN prefix \o CustomIdentToCss(Head(slice)) \o JoinRest(Tail(slice), sep) \o suffix
    ELSE prefix \o suffix

concat_serialize_idents(prefix, suffix, slice, sep) ==
    IF Len(slice) > 0
    THEN prefix \o CustomIdentToCss(Head(slice)) \o JoinRest(Tail(slice), sep) \o suffix
    ELSE <<>>

TrackRepeat(c, names, sizes) == [count |-> c, line_names |-> names, track_sizes |-> sizes]
NameRepeat(c, names) == [count |-> c, line_names |-> names]

\* The body of `for (i, (size, names)) in track_sizes.iter().zip(..).enumerate()`,
\* from the 0-based index i on.
RECURSIVE TrackRepeatPairs(_, _)
TrackRepeatPairs(self, i) ==
    IF i >= Len(self.track_sizes) \/ i >= Len(self.line_names) THEN <<>>
    ELSE (IF i > 0 THEN <<" ">> ELSE <<>>)
         \o concat_serialize_idents(<<"[">>, <<"]", " ">>, self.line_names[i + 1], <<" ">>)
         \o TrackSizeToCss(self.track_sizes[i + 1])
         \o TrackRepeatPairs(self, i + 1)

\* impl ToCss for TrackRepeat.  zip() stops without taking a name-set when
\* the sizes run out first, so the next name-set, if any, is the trailing one.
TrackRepeatToCss(self) ==
    S_repeat_open \o RepeatCountToCss(self.count) \o S_comma_space
    \o TrackRepeatPairs(self, 0)
    \o (IF Len(self.line_names) > Len(self.track_sizes)
        THEN concat_serialize_idents(<<" ", "[">>, <<"]">>,
                                     self.line_names[Len(self.track_sizes) + 1], <<" ">>)
        ELSE <<>>)
    \o <<")">>

RECURSIVE NameRepeatNames(_)
NameRepeatNames(names) ==
    IF Len(names) = 0 THEN <<>>
    ELSE (IF Len(Head(names)) = 0
          THEN <<" ", "[", "]">>
          ELSE concat_serialize_idents(<<" ", "[">>, <<"]">>, Head(names), <<" ">>))
         \o NameRepeatNames(Tail(names))

\* impl ToCss for NameRepeat
NameRepeatToCss(self) ==
    S_repeat_open \o RepeatCountToCss(self.count) \o <<",">>
    \o NameRepeatNames(self.line_names) \o <<")">>

NoRepeat == NameRepeat(AutoFill, <<>>)
LineNames(names) == [tag |-> "LineNames", names |-> names, repeat |-> NoRepeat]
Repeat(r) == [tag |-> "Repeat", names |-> <<>>, repeat |-> r]

\* impl ToCss for LineNameListValue
LineNameListValueToCss(self) ==
    IF self.tag = "Repeat" THEN NameRepeatToCss(self.repeat)
    ELSE <<"[">>
         \o (IF Len(self.names) > 0
             THEN CustomIdentToCss(Head(self.names)) \o JoinRest(Tail(self.names), <<" ">>)
             ELSE <<>>)
         \o <<"]">>

(***************************************************************************)
(* TrackListValue and TrackList.                                           *)
(***************************************************************************)
NoTrackRepeat == TrackRepeat(AutoFill, <<>>, <<>>)
ValueTrackSize(size) == [tag |-> "TrackSize", size |-> size, repeat |-> NoTrackRepeat]
ValueTrackRepeat(r) ==
    [tag |-> "TrackRepeat", size |-> SizeBreadth(AutoBreadth), repeat |-> r]

\* TrackListValue::is_repeat
is_repeat(v) == v.tag = "TrackRepeat"

\* #[derive(ToCss)] for TrackListValue
TrackListValueToCss(v) ==
    IF v.tag = "TrackSize" THEN TrackSizeToCss(v.size) ELSE TrackRepeatToCss(v.repeat)

TrackList(auto_repeat_index, values, names) ==
    [auto_repeat_index |-> auto_repeat_index, values |-> values, line_names |-> names]

\* TrackList::is_explicit
is_explicit(self) == ~\E i \in 1..Len(self.values) : is_repeat(self.values[i])

\* TrackList::has_auto_repeat
has_auto_repeat(self) == self.auto_repeat_index < Len(self.values)

\* The locals of TrackList::to_css between two iterations of its loop.
LoopState(p, i, vi, ni, d, vv, vn) ==
    [pc |-> p, idx |-> i, values_iter |-> vi, line_names_iter |-> ni, dest |-> d,
     visited_values |-> vv, visited_names |-> vn]

\* The condition under which an iteration ends by writing a space; the two
\* iterators have each yielded the element of this iteration.
SpaceAfterValue(self, s) ==
    \/ s.values_iter + 1 < Len(self.values)
    \/ /\ s.line_names_iter + 1 < Len(self.line_names)
       /\ Len(self.line_names[s.line_names_iter + 2]) > 0
    \/ s.idx + 1 = self.auto_repeat_index

\* One iteration taking the value before the name-set, leaving the loop
\* without a name-set once the values have run out.
TrackListIteration_ValueFirst(self, s) ==
    IF s.values_iter >= Len(self.values) THEN [s EXCEPT !.pc = "done"]
    ELSE IF s.line_names_iter >= Len(self.line_names) THEN [s EXCEPT !.pc = "panic"]
    ELSE LET names == self.line_names[s.line_names_iter + 1]
         IN [s EXCEPT
               !.line_names_iter = @ + 1,
               !.visited_names = Append(@, s.line_names_iter),
               !.values_iter = @ + 1,
               !.visited_values = Append(@, s.values_iter),
               !.idx = @ + 1,
               !.dest = @ \o concat_serialize_idents(<<"[">>, <<"]">>, names, <<" ">>)
                          \o (IF Len(names) > 0 THEN <<" ">> ELSE <<>>)
                          \o TrackListValueToCss(self.values[s.values_iter + 1])
                          \o (IF SpaceAfterValue(self, s) THEN <<" ">> ELSE <<>>)]

\* One iteration of `for idx in 0..` of TrackList::to_css.
TrackListIteration(self, s) ==
    IF s.line_names_iter >= Len(self.line_names) THEN [s EXCEPT !.pc = "panic"]
    ELSE LET names == self.line_names[s.line_names_iter + 1]
             named == [s EXCEPT
                         !.line_names_iter = @ + 1,
                         !.visited_names = Append(@, s.line_names_iter),
                         !.dest = @ \o concat_serialize_idents(<<"[">>, <<"]">>,
                                                              names, <<" ">>)]
         IN IF s.values_iter >= Len(self.values) THEN [named EXCEPT !.pc = "done"]
            ELSE [named EXCEPT
                    !.values_iter = @ + 1,
                    !.visited_values = Append(@, s.values_iter),
                    !.idx = @ + 1,
                    !.dest = @ \o (IF Len(names) > 0 THEN <<" ">> ELSE <<>>)
                               \o TrackListValueToCss(self.values[s.values_iter + 1])
                               \o (IF SpaceAfterValue(self, s) THEN <<" ">> ELSE <<>>)]

TrackListIdle ==
    /\ list_pc = "idle"
    /\ track_list = TrackList(0, <<>>, <<>>)
    /\ idx = 0
    /\ values_iter = 0
    /\ line_names_iter = 0
    /\ dest = <<>>
    /\ visited_values = <<>>
    /\ visited_names = <<>>

RepeatIdle ==
    /\ repeat_pc = "idle"
    /\ count_input = <<>>
    /\ count = AutoFill
    /\ line_names = <<>>
    /\ track_sizes = <<>>
    /\ track_repeat_css = <<>>
    /\ name_repeat_css = <<>>
    /\ line_name_value = LineNames(<<>>)
    /\ line_name_css = <<>>

GridLineIdle ==
    /\ debug_assertions = FALSE
    /\ input = <<>>
    /\ pos = 1
    /\ pc = "idle"
    /\ grid_line = auto
    /\ val_before_span = FALSE
    /\ iter = 0
    /\ css = NotWritten
    /\ reparsed = ParseErr
    /\ css2 = NotWritten
    /\ other = auto
    /\ omit = FALSE

(***************************************************************************)
(* The parse / print cycle, one loop iteration per step.                   *)
(***************************************************************************)
InputIntegers == {-99999, -1, 0, 1, 2, 99999}
InputTokens ==
    {IdentToken(S_auto), IdentToken(S_span), IdentToken(S_foo), IdentToken(S_bar),
     DelimToken} \cup {IntToken(n) : n \in InputIntegers}

RECURSIVE SeqsUpTo(_, _)
SeqsUpTo(S, n) ==
    IF n = 0 THEN {<<>>}
    ELSE LET shorter == SeqsUpTo(S, n - 1)
         IN shorter \cup {Append(q, x) : q \in shorter, x \in S}

InitParse ==
    /\ debug_assertions \in BOOLEAN
    /\ input \in SeqsUpTo(InputTokens, MaxTokens)
    /\ pos = 1
    /\ pc = "start"
    /\ grid_line = auto
    /\ val_before_span = FALSE
    /\ iter = 0
    /\ css = NotWritten
    /\ reparsed = ParseErr
    /\ css2 = NotWritten
    /\ other = auto
    /\ omit = FALSE
    /\ TrackSizeIdle
    /\ RepeatIdle
    /\ TrackListIdle

Current == ScanState(grid_line, val_before_span, pos, "continue")

\* The scan state `s` after one loop body becomes the parser's locals.
Scanned(s) ==
    /\ grid_line' = s.grid_line
    /\ val_before_span' = s.val_before_span
    /\ pos' = s.pos
    /\ iter' = IF s.outcome = "continue" THEN iter + 1 ELSE iter
    /\ pc' = IF s.outcome = "err" THEN "err"
             ELSE IF s.outcome = "break" \/ iter + 1 >= MaxEntities THEN "post"
             ELSE "scan"
    /\ UNCHANGED <<sizeVars, repeatVars, listVars, debug_assertions, input, css, reparsed, css2, other, omit>>

\* input.try_parse(|i| i.expect_ident_matching("auto"))
ParseAuto ==
    /\ pc = "start"
    /\ IF ExpectIdentMatching(NextToken(input, pos), S_auto)
       THEN pc' = "ok" /\ pos' = pos + 1
       ELSE pc' = "scan" /\ pos' = pos
    /\ UNCHANGED <<sizeVars, repeatVars, listVars, debug_assertions, input, grid_line, val_before_span, iter,
                   css, reparsed, css2, other, omit>>

ScanSpan ==
    /\ pc = "scan"
    /\ ExpectIdentMatching(NextToken(input, pos), S_span)
    /\ Scanned(ScanIteration(input, Current))

ScanInteger ==
    /\ pc = "scan"
    /\ IntegerParse(NextToken(input, pos))
    /\ Scanned(ScanIteration(input, Current))

ScanIdent ==
    /\ pc = "scan"
    /\ ~ExpectIdentMatching(NextToken(input, pos), S_span)
    /\ CustomIdentParse(NextToken(input, pos), {S_auto})
    /\ Scanned(ScanIteration(input, Current))

ScanBreak ==
    /\ pc = "scan"
    /\ ScanIteration(input, Current).outcome = "break"
    /\ Scanned(ScanIteration(input, Current))

Validate ==
    /\ pc = "post"
    /\ pc' = IF PostScan(grid_line, pos).ok THEN "ok" ELSE "err"
    /\ UNCHANGED <<sizeVars, repeatVars, listVars, debug_assertions, input, pos, grid_line, val_before_span, iter,
                   css, reparsed, css2, other, omit>>

\* to_css of the parsed value
Serialize ==
    /\ pc = "ok"
    /\ css' = GridLineToCss(grid_line, debug_assertions)
    /\ pc' = IF css'.panicked THEN "panic" ELSE "serialized"
    /\ UNCHANGED <<sizeVars, repeatVars, listVars, debug_assertions, input, pos, grid_line, val_before_span, iter,
                   reparsed, css2, other, omit>>

\* parse of the serialized text
Reparse ==
    /\ pc = "serialized"
    /\ reparsed' = GridLineParse(Tokenize(css.text))
    /\ pc' = "reparsed"
    /\ UNCHANGED <<sizeVars, repeatVars, listVars, debug_assertions, input, pos, grid_line, val_before_span, iter,
                   css, css2, other, omit>>

\* to_css of the reparsed value
Reserialize ==
    /\ pc = "reparsed"
    /\ reparsed.ok
    /\ css2' = GridLineToCss(reparsed.value, debug_assertions)
    /\ pc' = "done"
    /\ UNCHANGED <<sizeVars, repeatVars, listVars, debug_assertions, input, pos, grid_line, val_before_span, iter,
                   css, reparsed, other, omit>>

NextParse ==
    \/ ParseAuto
    \/ ScanSpan
    \/ ScanInteger
    \/ ScanIdent
    \/ ScanBreak
    \/ Validate
    \/ Serialize
    \/ Reparse
    \/ Reserialize

SpecParse == InitParse /\ [][NextParse]_vars

(***************************************************************************)
(* GridLine values as such: can_omit and to_css on any pair of values,     *)
(* whether or not the parser can produce them.                             *)
(***************************************************************************)
LineNumbers == {-10000, -1, 0, 1, 2, 10000}
Idents == {EmptyAtom, S_foo, S_bar}
GridLines == {GridLine(i, n, s) : i \in Idents, n \in LineNumbers, s \in BOOLEAN}

InitGridLine ==
    /\ debug_assertions \in BOOLEAN
    /\ input = <<>>
    /\ pos = 1
    /\ pc = "value"
    /\ grid_line \in GridLines
    /\ val_before_span = FALSE
    /\ iter = 0
    /\ css = NotWritten
    /\ reparsed = ParseErr
    /\ css2 = NotWritten
    /\ other \in GridLines
    /\ omit = FALSE
    /\ TrackSizeIdle
    /\ RepeatIdle
    /\ TrackListIdle

\* grid_line.can_omit(&other)
CanOmit ==
    /\ pc = "value"
    /\ omit' = can_omit(grid_line, other)
    /\ pc' = "compared"
    /\ UNCHANGED <<sizeVars, repeatVars, listVars, debug_assertions, input, pos, grid_line, val_before_span, iter,
                   css, reparsed, css2, other>>

\* grid_line.to_css(dest)
ToCss ==
    /\ pc = "compared"
    /\ css' = GridLineToCss(grid_line, debug_assertions)
    /\ pc' = IF css'.panicked THEN "panic" ELSE "printed"
    /\ UNCHANGED <<sizeVars, repeatVars, listVars, debug_assertions, input, pos, grid_line, val_before_span, iter,
                   reparsed, css2, other, omit>>

NextGridLine ==
    \/ CanOmit
    \/ ToCss

SpecGridLine == InitGridLine /\ [][NextGridLine]_vars

(***************************************************************************)
(* TrackSize serialization of a pair of values.                            *)
(***************************************************************************)
MaxFr == 2
Lengths == {S_10px, S_50pct}
TrackBreadths ==
    {BreadthOf(l) : l \in Lengths} \cup {Fr(x) : x \in 1..MaxFr}
    \cup {AutoBreadth, MinContent, MaxContent}
TrackSizes ==
    {SizeBreadth(b) : b \in TrackBreadths}
    \cup {Minmax(a, b) : a \in TrackBreadths, b \in TrackBreadths}
    \cup {FitContent(b) : b \in TrackBreadths}

InitTrackSize ==
    /\ GridLineIdle
    /\ RepeatIdle
    /\ TrackListIdle
    /\ size_pc = "value"
    /\ size_a \in TrackSizes
    /\ size_b \in TrackSizes
    /\ size_css_a = <<>>
    /\ size_css_b = <<>>
    /\ size_fixed = FALSE

\* size_a.to_css(dest)
SerializeSizeA ==
    /\ size_pc = "value"
    /\ size_css_a' = TrackSizeToCss(size_a)
    /\ size_pc' = "printed_a"
    /\ UNCHANGED <<glVars, repeatVars, listVars, size_a, size_b, size_css_b, size_fixed>>

\* size_b.to_css(dest)
SerializeSizeB ==
    /\ size_pc = "printed_a"
    /\ size_css_b' = TrackSizeToCss(size_b)
    /\ size_pc' = "printed"
    /\ UNCHANGED <<glVars, repeatVars, listVars, size_a, size_b, size_css_a, size_fixed>>

\* size_a.is_fixed()
IsFixed ==
    /\ size_pc = "value"
    /\ size_fixed' = TrackSizeIsFixed(size_a)
    /\ size_pc' = "checked"
    /\ UNCHANGED <<glVars, repeatVars, listVars, size_a, size_b, size_css_a, size_css_b>>

NextTrackSize ==
    \/ SerializeSizeA
    \/ SerializeSizeB
    \/ IsFixed

SpecTrackSize == InitTrackSize /\ [][NextTrackSize]_vars

(***************************************************************************)
(* repeat(): the count is parsed, then serialized in a TrackRepeat, in a   *)
(* NameRepeat and in a LineNameListValue.                                  *)
(***************************************************************************)
MaxNameSets == 3
MaxSizes == 2
S_Auto_Fill == <<"A", "u", "t", "o", "-", "F", "i", "l", "l">>
CountIntegers == {-1, 0, 1, 2, 10000, 10001, 99999}
CountTokens ==
    {IntToken(n) : n \in CountIntegers}
    \cup {IdentToken(S_auto_fill), IdentToken(S_auto_fit), IdentToken(S_Auto_Fill),
          IdentToken(S_auto), IdentToken(S_foo), DelimToken}
CountInputs == {<<>>} \cup {<<tok>> : tok \in CountTokens}
NameSets == {<<>>, <<S_a>>, <<S_a, S_b>>}
RepeatSizes == {SizeBreadth(BreadthOf(S_10px)), Minmax(AutoBreadth, Fr(1))}

InitRepeat ==
    /\ GridLineIdle
    /\ TrackSizeIdle
    /\ TrackListIdle
    /\ repeat_pc = "start"
    /\ count_input \in CountInputs
    /\ count = AutoFill
    /\ line_names \in SeqsUpTo(NameSets, MaxNameSets)
    /\ track_sizes \in SeqsUpTo(RepeatSizes, MaxSizes)
    /\ track_repeat_css = <<>>
    /\ name_repeat_css = <<>>
    /\ line_name_value = LineNames(<<>>)
    /\ line_name_css = <<>>

\* RepeatCount::parse(context, input)
ParseCount ==
    /\ repeat_pc = "start"
    /\ LET r == RepeatCountParse(count_input)
       IN /\ repeat_pc' = IF r.ok THEN "counted" ELSE "err"
          /\ count' = IF r.ok THEN r.value ELSE count
    /\ UNCHANGED <<glVars, sizeVars, listVars, count_input, line_names, track_sizes,
                   track_repeat_css, name_repeat_css, line_name_value, line_name_css>>

\* TrackRepeat { count, line_names, track_sizes }.to_css(dest)
SerializeTrackRepeat ==
    /\ repeat_pc = "counted"
    /\ track_repeat_css' = TrackRepeatToCss(TrackRepeat(count, line_names, track_sizes))
    /\ repeat_pc' = "track_repeat"
    /\ UNCHANGED <<glVars, sizeVars, listVars, count_input, count, line_names, track_sizes,
                   name_repeat_css, line_name_value, line_name_css>>

\* NameRepeat { count, line_names }.to_css(dest)
SerializeNameRepeat ==
    /\ repeat_pc = "track_repeat"
    /\ name_repeat_css' = NameRepeatToCss(NameRepeat(count, line_names))
    /\ repeat_pc' = "name_repeat"
    /\ UNCHANGED <<glVars, sizeVars, listVars, count_input, count, line_names, track_sizes,
                   track_repeat_css, line_name_value, line_name_css>>

\* value.to_css(dest) for a LineNameListValue: one name-set, or the NameRepeat
SerializeLineNameListValue ==
    /\ repeat_pc = "name_repeat"
    /\ \E v \in {LineNames(n) : n \in NameSets} \cup {Repeat(NameRepeat(count, line_names))} :
          /\ line_name_value' = v
          /\ line_name_css' = LineNameListValueToCss(v)
    /\ repeat_pc' = "done"
    /\ UNCHANGED <<glVars, sizeVars, listVars, count_input, count, line_names, track_sizes,
                   track_repeat_css, name_repeat_css>>

NextRepeat ==
    \/ ParseCount
    \/ SerializeTrackRepeat
    \/ SerializeNameRepeat
    \/ SerializeLineNameListValue

SpecRepeat == InitRepeat /\ [][NextRepeat]_vars

(***************************************************************************)
(* TrackList serialization, one step per iteration of its loop.            *)
(***************************************************************************)
MaxValues == 2

IsAutoRepeat(v) == is_repeat(v) /\ v.repeat.count.tag \in {"AutoFill", "AutoFit"}

ListValues ==
    {ValueTrackSize(SizeBreadth(BreadthOf(S_10px))),
     ValueTrackRepeat(TrackRepeat(Number(2), <<<<>>, <<S_a>>>>, <<SizeBreadth(Fr(1))>>)),
     ValueTrackRepeat(TrackRepeat(AutoFill, <<<<>>, <<>>>>,
                                  <<SizeBreadth(BreadthOf(S_10px))>>))}

AutoRepeats(values) == {i \in 1..Len(values) : IsAutoRepeat(values[i])}

\* The index of the auto-repeat entry, or values.len() when there is none.
AutoRepeatIndex(values) ==
    IF AutoRepeats(values) = {} THEN Len(values)
    ELSE (CHOOSE i \in AutoRepeats(values) : TRUE) - 1

\* Every list with at most one auto-repeat entry and any number of name-sets.
TrackLists ==
    {TrackList(AutoRepeatIndex(values), values, names) :
        values \in {v \in SeqsUpTo(ListValues, MaxValues) : Cardinality(AutoRepeats(v)) <= 1},
        names \in SeqsUpTo(NameSets, MaxValues + 1)}

InitTrackList ==
    /\ GridLineIdle
    /\ TrackSizeIdle
    /\ RepeatIdle
    /\ list_pc = "loop"
    /\ track_list \in TrackLists
    /\ idx = 0
    /\ values_iter = 0
    /\ line_names_iter = 0
    /\ dest = <<>>
    /\ visited_values = <<>>
    /\ visited_names = <<>>

Locals ==
    LoopState(list_pc, idx, values_iter, line_names_iter, dest,
              visited_values, visited_names)

Iterated(s) ==
    /\ list_pc' = s.pc
    /\ idx' = s.idx
    /\ values_iter' = s.values_iter
    /\ line_names_iter' = s.line_names_iter
    /\ dest' = s.dest
    /\ visited_values' = s.visited_values
    /\ visited_names' = s.visited_names
    /\ UNCHANGED <<glVars, sizeVars, repeatVars, track_list>>

\* line_names_iter.next().unwrap() on an exhausted iterator
LoopUnwrapNone ==
    /\ list_pc = "loop"
    /\ line_names_iter >= Len(track_list.line_names)
    /\ Iterated(TrackListIteration(track_list, Locals))

\* an iteration that finds a name-set and a value
LoopValue ==
    /\ list_pc = "loop"
    /\ line_names_iter < Len(track_list.line_names)
    /\ values_iter < Len(track_list.values)
    /\ Iterated(TrackListIteration(track_list, Locals))

\* the iteration that finds a name-set and no value: `None => break`
LoopBreak ==
    /\ list_pc = "loop"
    /\ line_names_iter < Len(track_list.line_names)
    /\ values_iter >= Len(track_list.values)
    /\ Iterated(TrackListIteration(track_list, Locals))

NextTrackList ==
    \/ LoopUnwrapNone
    \/ LoopValue
    \/ LoopBreak

SpecTrackList == InitTrackList /\ [][NextTrackList]_vars

(***************************************************************************)
(* GridLine::to_css applied to the values parse returns and to every value *)
(* of the type: the behaviours of SpecParse together with SpecGridLine.    *)
(***************************************************************************)
InitAssertions == InitParse \/ InitGridLine

NextAssertions == NextParse \/ NextGridLine

SpecAssertions == InitAssertions /\ [][NextAssertions]_vars

(***************************************************************************)
(* Properties of GridLine::parse and GridLine::to_css (SpecParse).         *)
(***************************************************************************)
Scanning == pc \in {"start", "scan", "post"}
Rejected == pc = "err"
Accepted == ~Scanning /\ ~Rejected
Consumed == SubSeq(input, 1, pos - 1)
SpanDefaultWithIdent(g) == g.is_span /\ g.line_num = 1 /\ g.ident # EmptyAtom

\* C1 (as stated): parsing the text of a parsed GridLine succeeds and gives
\* back a structurally equal GridLine.
C1_RoundTripExact ==
    pc \in {"reparsed", "done"} => reparsed.ok /\ reparsed.value = grid_line

\* C1 (amended): parsing the text of a parsed GridLine succeeds and gives
\* back the same ident and is_span, and the same line_num except for a span
\* of 1 with an identifier, whose integer is not printed and reads back as 0.
C1_RoundTripUpToDefaultSpan ==
    pc \in {"reparsed", "done"} =>
        /\ reparsed.ok
        /\ reparsed.value.ident = grid_line.ident
        /\ reparsed.value.is_span = grid_line.is_span
        /\ reparsed.value.line_num =
              (IF SpanDefaultWithIdent(grid_line) THEN 0 ELSE grid_line.line_num)

C1_Witness ==
    /\ pc = "reparsed"
    /\ SpanDefaultWithIdent(grid_line)
    /\ reparsed.ok
    /\ reparsed.value.line_num = 0

\* C2: for accepted text t and s = to_css(parse(t)), parse(s) succeeds and
\* to_css(parse(s)) = s.
C2_SerializeIdempotent ==
    /\ pc \in {"reparsed", "done"} => reparsed.ok
    /\ pc = "done" => ~css2.panicked /\ css2.text = css.text

C2_Witness ==
    /\ pc = "done"
    /\ reparsed.value # grid_line
    /\ css2.text = css.text

\* C3 (as stated): the two-token input `2 span` is rejected.
C3_IntegerThenSpanFails ==
    (input = <<IntToken(2), IdentToken(S_span)>> /\ ~Scanning) => Rejected

\* C3 (amended): the two-token input `<integer> span` is accepted when the
\* integer is positive, with is_span set, the clamped integer and no ident;
\* it is rejected only when the integer is zero or negative.
C3_IntegerThenSpanAccepted ==
    \A n \in InputIntegers :
        (input = <<IntToken(n), IdentToken(S_span)>> /\ ~Scanning) =>
            IF n > 0
            THEN Accepted /\ grid_line = GridLine(EmptyAtom, Min(n, MAX_GRID_LINE), TRUE)
            ELSE Rejected

C3_Witness ==
    /\ input = <<IntToken(2), IdentToken(S_span)>>
    /\ pc = "ok"
    /\ grid_line = GridLine(EmptyAtom, 2, TRUE)

Clamped(n) == IF n > 10000 THEN 10000 ELSE IF n < -10000 THEN -10000 ELSE n
ClampedTokens(tokens) ==
    [i \in 1..Len(tokens) |->
        IF tokens[i].kind = "int" THEN IntToken(Clamped(tokens[i].value)) ELSE tokens[i]]

\* C4: when the parse succeeds having read the integer n, line_num is n
\* clamped to [-10000, 10000]; every parsed line_num is in that range; and
\* an input is accepted exactly when the input with its integers clamped is.
C4_LineNumClamped ==
    /\ Accepted =>
          /\ grid_line.line_num >= -10000 /\ grid_line.line_num <= 10000
          /\ \A i \in 1..Len(Consumed) :
                Consumed[i].kind = "int" => grid_line.line_num = Clamped(Consumed[i].value)
    /\ ~Scanning => (Accepted <=> GridLineParse(ClampedTokens(input)).ok)

C4_Witness ==
    /\ pc = "ok"
    /\ \E i \in 1..Len(Consumed) : Consumed[i] = IntToken(99999)
    /\ grid_line.line_num = 10000

IsNegativeInt(tok) == tok.kind = "int" /\ tok.value < 0
IsSpanToken(tok) == tok.kind = "ident" /\ tok.name = S_span
IsCustomIdentToken(tok) == tok.kind = "ident" /\ tok.name \notin {S_span, S_auto}

\* `span` with a negative integer and at most one identifier, in any order.
SpanWithNegative(tokens) ==
    /\ Len(tokens) \in {2, 3}
    /\ Cardinality({i \in 1..Len(tokens) : IsSpanToken(tokens[i])}) = 1
    /\ Cardinality({i \in 1..Len(tokens) : IsNegativeInt(tokens[i])}) = 1
    /\ \A i \in 1..Len(tokens) :
          IsSpanToken(tokens[i]) \/ IsNegativeInt(tokens[i]) \/ IsCustomIdentToken(tokens[i])

\* C5: a parsed GridLine with is_span has line_num > 0, or line_num = 0 and
\* an identifier; `span`, `span 0` and span with a negative integer (with or
\* without an identifier, in any order) are rejected.
C5_SpanNeedsPositiveOrIdent ==
    /\ (Accepted /\ grid_line.is_span) =>
          \/ grid_line.line_num > 0
          \/ grid_line.line_num = 0 /\ grid_line.ident # EmptyAtom
    /\ Accepted =>
          ~(\E i, j \in 1..Len(Consumed) :
               IsSpanToken(Consumed[i]) /\ IsNegativeInt(Consumed[j]))
    /\ ~Scanning =>
          /\ input = <<IdentToken(S_span)>> => Rejected
          /\ input = <<IdentToken(S_span), IntToken(0)>> => Rejected
          /\ SpanWithNegative(input) => Rejected

C5_Witness ==
    /\ pc = "err"
    /\ iter = MaxEntities
    /\ SpanWithNegative(input)
    /\ grid_line.is_span /\ grid_line.line_num < 0 /\ grid_line.ident # EmptyAtom

(***************************************************************************)
(* Properties of GridLine values (SpecGridLine).                           *)
(***************************************************************************)
IdentOnly(g) == g.ident # <<>> /\ g.line_num = 0 /\ g.is_span = FALSE
IsAutoLine(g) == g.ident = <<>> /\ g.line_num = 0 /\ g.is_span = FALSE

\* C9: a.can_omit(b) is true exactly when a is identifier-only and a = b, or
\* a is not identifier-only and b is auto; an identifier-only a never omits
\* an auto b, and a numbered or span a never omits an equal non-auto b.
C9_CanOmit ==
    pc \in {"compared", "printed", "panic"} =>
        /\ omit <=> \/ IdentOnly(grid_line) /\ grid_line = other
                    \/ ~IdentOnly(grid_line) /\ IsAutoLine(other)
        /\ (IdentOnly(grid_line) /\ IsAutoLine(other)) => ~omit
        /\ (~IdentOnly(grid_line) /\ grid_line = other /\ ~IsAutoLine(other)) => ~omit

C9_Witness ==
    /\ pc = "compared"
    /\ grid_line.line_num = 2
    /\ grid_line = other
    /\ ~omit

\* The form C10 describes, for a GridLine g.
ExpectedGridLineText(g) ==
    LET identText == IF g.ident # <<>> THEN <<" ">> \o g.ident ELSE <<>>
    IN CASE IsAutoLine(g) -> <<"a", "u", "t", "o">>
         [] IdentOnly(g) -> g.ident
         [] ~IsAutoLine(g) /\ ~IdentOnly(g) /\ g.is_span ->
               <<"s", "p", "a", "n">>
               \o (IF g.line_num = 0 \/ (g.line_num = 1 /\ g.ident # <<>>)
                   THEN <<>> ELSE <<" ">> \o IntegerToCss(g.line_num))
               \o identText
         [] OTHER -> IntegerToCss(g.line_num) \o identText

\* C10: to_css prints `auto` for auto, the identifier for an identifier-only
\* line, `span[ <line_num>][ <ident>]` for a span (the integer left out when
\* it is 0, or 1 next to an identifier), and `<line_num>[ <ident>]` otherwise;
\* {span, 1} prints `span 1`, {span, 1, foo} `span foo`, {span, 2, foo}
\* `span 2 foo`.
C10_ToCssForms ==
    pc = "printed" =>
        /\ css.text = ExpectedGridLineText(grid_line)
        /\ grid_line = GridLine(<<>>, 1, TRUE) =>
              css.text = <<"s", "p", "a", "n", " ", "1">>
        /\ grid_line = GridLine(S_foo, 1, TRUE) =>
              css.text = <<"s", "p", "a", "n", " ", "f", "o", "o">>
        /\ grid_line = GridLine(S_foo, 2, TRUE) =>
              css.text = <<"s", "p", "a", "n", " ", "2", " ", "f", "o", "o">>

C10_Witness ==
    /\ pc = "printed"
    /\ grid_line = GridLine(S_foo, 1, TRUE)
    /\ css.text = <<"s", "p", "a", "n", " ", "f", "o", "o">>

(***************************************************************************)
(* Properties of TrackSize::to_css (SpecTrackSize).                        *)
(***************************************************************************)
\* The text C6 describes, for a TrackSize v.
ExpectedTrackSizeText(v) ==
    IF v.tag = "Minmax"
    THEN IF v.first = AutoBreadth /\ v.second.tag = "Fr"
         THEN TrackBreadthToCss(v.second)
         ELSE <<"m", "i", "n", "m", "a", "x", "(">> \o TrackBreadthToCss(v.first)
              \o <<",", " ">> \o TrackBreadthToCss(v.second) \o <<")">>
    ELSE IF v.tag = "FitContent"
         THEN <<"f", "i", "t", "-", "c", "o", "n", "t", "e", "n", "t", "(">>
              \o TrackBreadthToCss(v.first) \o <<")">>
         ELSE TrackBreadthToCss(v.first)

\* C6: Minmax(min, max) prints as the bare `<max>` exactly when min is Auto
\* and max is Fr, and as `minmax(<min>, <max>)` otherwise; Breadth(b) prints as
\* b and FitContent(b) as `fit-content(<b>)`; two distinct TrackSize values
\* print the same only if they are Minmax(Auto, Fr(x)) and Breadth(Fr(x)).
C6_TrackSizeToCss ==
    /\ size_pc \in {"printed_a", "printed"} =>
          /\ size_css_a = ExpectedTrackSizeText(size_a)
          /\ size_a = Minmax(AutoBreadth, Fr(2)) => size_css_a = <<"2", "f", "r">>
          /\ size_a = Minmax(BreadthOf(S_10px), Fr(2)) =>
                size_css_a = <<"m", "i", "n", "m", "a", "x", "(", "1", "0", "p", "x",
                               ",", " ", "2", "f", "r", ")">>
    /\ (size_pc = "printed" /\ size_a # size_b /\ size_css_a = size_css_b) =>
          \E x \in 1..MaxFr :
              {size_a, size_b} = {Minmax(AutoBreadth, Fr(x)), SizeBreadth(Fr(x))}

C6_Witness ==
    /\ size_pc = "printed"
    /\ size_a = Minmax(AutoBreadth, Fr(2))
    /\ size_b = SizeBreadth(Fr(2))
    /\ size_css_a = <<"2", "f", "r">>
    /\ size_css_b = size_css_a

(***************************************************************************)
(* Properties of RepeatCount::parse and of the repeat() serializers        *)
(* (SpecRepeat).                                                           *)
(***************************************************************************)
Occurrences(text, pat) ==
    Cardinality({i \in 1..(Len(text) - Len(pat) + 1) :
                    SubSeq(text, i, i + Len(pat) - 1) = pat})
Contains(text, pat) == Occurrences(text, pat) > 0
EmptySets(names) == Cardinality({i \in 1..Len(names) : names[i] = <<>>})
TrackRepeatPrinted == repeat_pc \in {"track_repeat", "name_repeat", "done"}
NameRepeatPrinted == repeat_pc \in {"name_repeat", "done"}

\* C7 (as stated): a TrackRepeat never prints `[]`; a NameRepeat prints ` []`
\* once per empty name-set; and no serializer but NameRepeat prints an empty
\* name-set explicitly.
C7_OnlyNameRepeatExplicit ==
    /\ TrackRepeatPrinted => ~Contains(track_repeat_css, <<"[", "]">>)
    /\ NameRepeatPrinted =>
          Occurrences(name_repeat_css, <<" ", "[", "]">>) = EmptySets(line_names)
    /\ (repeat_pc = "done" /\ line_name_value.tag = "LineNames") =>
          ~Contains(line_name_css, <<"[", "]">>)

\* C7 (amended): a TrackRepeat never prints `[]`; a NameRepeat prints ` []`
\* once per empty name-set; a LineNameListValue prints an empty LineNames
\* name-set as `[]` too, and a Repeat as its NameRepeat does.
C7_EmptyNameSets ==
    /\ TrackRepeatPrinted => ~Contains(track_repeat_css, <<"[", "]">>)
    /\ NameRepeatPrinted =>
          Occurrences(name_repeat_css, <<" ", "[", "]">>) = EmptySets(line_names)
    /\ (repeat_pc = "done" /\ line_name_value.tag = "LineNames") =>
          /\ Contains(line_name_css, <<"[", "]">>) <=> line_name_value.names = <<>>
          /\ line_name_value.names = <<>> => line_name_css = <<"[", "]">>
    /\ (repeat_pc = "done" /\ line_name_value.tag = "Repeat") =>
          /\ line_name_css = name_repeat_css
          /\ Occurrences(line_name_css, <<"[", "]">>) = EmptySets(line_names)

C7_Witness ==
    /\ repeat_pc = "done"
    /\ Len(track_sizes) = 2
    /\ line_names = <<<<>>, <<S_a>>, <<>>>>
    /\ line_name_value = LineNames(<<>>)
    /\ line_name_css = <<"[", "]">>
    /\ Occurrences(name_repeat_css, <<" ", "[", "]">>) = 2
    /\ ~Contains(track_repeat_css, <<"[", "]">>)

\* C8: RepeatCount::parse on an integer n >= 1 returns Number(min(n, 10000)),
\* never a Number below 1 or above 10000; it rejects an integer n <= 0;
\* `auto-fill` / `auto-fit` give AutoFill / AutoFit; anything else fails.
C8_RepeatCountParse ==
    repeat_pc # "start" =>
        LET tok == IF Len(count_input) > 0 THEN count_input[1] ELSE EofToken
        IN /\ (tok.kind = "int" /\ tok.value >= 1) =>
                 /\ repeat_pc # "err"
                 /\ count = Number(IF tok.value <= 10000 THEN tok.value ELSE 10000)
           /\ (tok.kind = "int" /\ tok.value <= 0) => repeat_pc = "err"
           /\ tok \in {IdentToken(S_auto_fill), IdentToken(S_Auto_Fill)} =>
                 repeat_pc # "err" /\ count = AutoFill
           /\ tok = IdentToken(S_auto_fit) => repeat_pc # "err" /\ count = AutoFit
           /\ (tok.kind # "int"
               /\ tok \notin {IdentToken(S_auto_fill), IdentToken(S_Auto_Fill),
                              IdentToken(S_auto_fit)}) => repeat_pc = "err"
           /\ (repeat_pc # "err" /\ count.tag = "Number") =>
                 count.n >= 1 /\ count.n <= 10000

C8_Witness ==
    /\ repeat_pc = "counted"
    /\ count_input = <<IntToken(99999)>>
    /\ count = Number(10000)

ReadsRepeatOrZero ==
    LET tok == NextToken(input, pos)
    IN \/ IsSpanToken(tok) /\ grid_line.is_span
       \/ tok.kind = "int" /\ (grid_line.line_num # 0 \/ tok.value = 0)
       \/ IsCustomIdentToken(tok) /\ grid_line.ident # <<>>

Count(tokens, P(_)) == Cardinality({i \in 1..Len(tokens) : P(tokens[i])})
IsIntToken(tok) == tok.kind = "int"
IsZeroInt(tok) == tok.kind = "int" /\ tok.value = 0

\* C12: the parse fails in the very iteration that reads a second `span`, a
\* second integer, a second identifier or the integer 0, leaving the locals
\* and the cursor as they were; no accepted input has such a token among
\* those read.
C12_RepeatsFailEagerly ==
    /\ [](Accepted =>
            /\ Count(Consumed, IsSpanToken) <= 1
            /\ Count(Consumed, IsIntToken) <= 1
            /\ Count(Consumed, IsCustomIdentToken) <= 1
            /\ Count(Consumed, IsZeroInt) = 0)
    /\ [][(pc = "scan" /\ ReadsRepeatOrZero) =>
             (pc' = "err" /\ grid_line' = grid_line /\ pos' = pos)]_vars

C12_Witness ==
    /\ pc = "err"
    /\ ~val_before_span
    /\ NextToken(input, pos).kind = "int"
    /\ NextToken(input, pos).value # 0
    /\ grid_line.line_num # 0

\* C13: an accepted parse gives an auto value only when the first token is
\* `auto`; when the scan reads no token (empty input, or a first token that
\* is no span, integer or identifier) the parse fails; GridLine::auto() is
\* auto, not identifier-only and not a span.
C13_AutoOnlyFromKeyword ==
    /\ (Accepted /\ is_auto(grid_line)) =>
          Len(input) >= 1 /\ input[1] = IdentToken(S_auto)
    /\ (~Scanning /\ (input = <<>> \/ NextToken(input, 1).kind \in {"delim", "eof"})) =>
          Rejected /\ pos = 1
    /\ (~Scanning /\ pos = 1) => Rejected
    /\ is_auto(auto) /\ ~is_ident_only(auto) /\ ~auto.is_span

C13_Witness ==
    /\ pc = "err"
    /\ iter = 0
    /\ pos = 1
    /\ NextToken(input, 1) = DelimToken
    /\ grid_line = auto

(***************************************************************************)
(* Properties of TrackSize::is_fixed (SpecTrackSize).                      *)
(***************************************************************************)
\* C14: a plain breadth is fixed exactly when it is a length-percentage;
\* fit-content() is never fixed; minmax(a, b) is fixed exactly when a is a
\* length-percentage, or a is auto, min-content or max-content and b is a
\* length-percentage: minmax(<flex>, b) is never fixed and
\* minmax(<length-percentage>, <flex>) is.
C14_IsFixed ==
    size_pc = "checked" =>
        /\ size_a.tag = "Breadth" => (size_fixed <=> size_a.first.tag = "Breadth")
        /\ size_a.tag = "FitContent" => ~size_fixed
        /\ size_a.tag = "Minmax" =>
              (size_fixed <=>
                  \/ size_a.first.tag = "Breadth"
                  \/ /\ size_a.first.tag \in {"Auto", "MinContent", "MaxContent"}
                     /\ size_a.second.tag = "Breadth")
        /\ (size_a.tag = "Minmax" /\ size_a.first.tag = "Fr") => ~size_fixed
        /\ (size_a.tag = "Minmax" /\ size_a.first.tag = "Breadth"
              /\ size_a.second.tag = "Fr") => size_fixed

C14_Witness ==
    /\ size_pc = "checked"
    /\ size_a = Minmax(MinContent, BreadthOf(S_50pct))
    /\ size_fixed

(***************************************************************************)
(* Properties of TrackList::to_css (SpecTrackList).                        *)
(***************************************************************************)
WellFormed(self) == Len(self.line_names) = Len(self.values) + 1
Indices(n) == [i \in 1..n |-> i - 1]

\* C15: the text of a list with at least one value, one name-set more than
\* values, and auto_repeat_index either values.len() or the index of an
\* auto-repeat entry has no leading space, no trailing space and no two
\* consecutive spaces.
C15_NoStraySpaces ==
    (/\ list_pc = "done"
     /\ Len(track_list.values) >= 1
     /\ WellFormed(track_list)
     /\ \/ track_list.auto_repeat_index = Len(track_list.values)
        \/ /\ has_auto_repeat(track_list)
           /\ IsAutoRepeat(track_list.values[track_list.auto_repeat_index + 1]))
    => /\ dest # <<>>
       /\ dest[1] # " "
       /\ dest[Len(dest)] # " "
       /\ ~Contains(dest, <<" ", " ">>)

\* The same without the trailing-space part, and the trailing space traced
\* to its one cause: no auto-repeat and an empty last name-set.
C15_SpacesExceptTrailing ==
    (/\ list_pc = "done"
     /\ Len(track_list.values) >= 1
     /\ WellFormed(track_list))
    => /\ dest # <<>>
       /\ dest[1] # " "
       /\ ~Contains(dest, <<" ", " ">>)
       /\ dest[Len(dest)] = " " <=>
             /\ ~has_auto_repeat(track_list)
             /\ track_list.line_names[Len(track_list.line_names)] = <<>>

C15_TrailingSpace ==
    /\ list_pc = "done"
    /\ track_list = TrackList(1, <<ValueTrackSize(SizeBreadth(BreadthOf(S_10px)))>>,
                              <<<<>>, <<>>>>)
    /\ dest = S_10px \o <<" ">>

\* C16: with one name-set more than values the loop never unwraps a missing
\* name-set, yields every value and every name-set once in index order and
\* leaves in its (values.len() + 1)-th iteration; with no more name-sets
\* than values it never leaves by `break` and comes to the unwrap with the
\* name-sets exhausted.
C16_LoopVisitsAll ==
    LET n == Len(track_list.values)
        m == Len(track_list.line_names)
    IN /\ (list_pc # "idle" /\ WellFormed(track_list)) =>
             /\ list_pc # "panic"
             /\ idx <= n
             /\ visited_values = Indices(values_iter)
             /\ visited_names = Indices(line_names_iter)
             /\ list_pc = "loop" => values_iter = idx /\ line_names_iter = idx
             /\ list_pc = "done" =>
                   idx = n /\ visited_values = Indices(n) /\ visited_names = Indices(n + 1)
       /\ (list_pc # "idle" /\ m <= n) =>
             /\ list_pc # "done"
             /\ idx <= m
             /\ (list_pc = "loop" /\ idx = m) =>
                   TrackListIteration(track_list, Locals).pc = "panic"
             /\ list_pc = "panic" => idx = m /\ line_names_iter = m

C16_Witness ==
    /\ list_pc = "done"
    /\ Len(track_list.values) = 2
    /\ Len(track_list.line_names) = 3
    /\ idx = 2
    /\ visited_names = <<0, 1, 2>>

C16_PanicWitness ==
    /\ list_pc = "panic"
    /\ Len(track_list.values) = 2
    /\ Len(track_list.line_names) = 2
    /\ idx = 2

(***************************************************************************)
(* The debug assertions of GridLine::to_css (SpecAssertions).              *)
(***************************************************************************)
\* The cursor has moved: grid_line is a value parse built from the input.
FromParse == pos > 1

\* grid_line is a GridLine value: one parse returned, or any value of the type.
IsValue == (FromParse /\ Accepted) \/ pc \in {"value", "compared", "printed", "panic"}

\* C17: to_css of a value parse returned never fails a debug assertion; the
\* assertion of the numbered branch holds for every value that reaches it,
\* and the assertion of the span branch fails only for {span, no integer, no
\* identifier}, which parse never returns.
C17_DebugAssertions ==
    /\ (FromParse /\ Accepted) =>
          /\ pc # "panic"
          /\ InSpanBranch(grid_line) => SpanAssertion(grid_line)
          /\ InNumberedBranch(grid_line) => NumberedAssertion(grid_line)
    /\ (pc \in {"reparsed", "done"} /\ reparsed.ok) =>
          /\ InSpanBranch(reparsed.value) => SpanAssertion(reparsed.value)
          /\ InNumberedBranch(reparsed.value) => NumberedAssertion(reparsed.value)
    /\ (IsValue /\ InNumberedBranch(grid_line)) => NumberedAssertion(grid_line)
    /\ (IsValue /\ InSpanBranch(grid_line) /\ ~SpanAssertion(grid_line)) =>
          ~FromParse /\ grid_line = GridLine(EmptyAtom, 0, TRUE)
    /\ pc = "panic" =>
          /\ debug_assertions
          /\ ~FromParse
          /\ css = Panicked(S_span)
          /\ InSpanBranch(grid_line) /\ ~SpanAssertion(grid_line)

C17_Witness ==
    /\ debug_assertions
    /\ FromParse
    /\ pc = "serialized"
    /\ grid_line = GridLine(S_foo, 0, TRUE)
    /\ css = Wrote(S_span \o <<" ">> \o S_foo)

C17_SpanAssertionFails ==
    /\ debug_assertions
    /\ ~FromParse
    /\ pc = "panic"
    /\ grid_line = GridLine(EmptyAtom, 0, TRUE)

====
